---- MODULE Spec2Model ----
(***************************************************************************)
(* Model of the city-layout computation of lore-of-the-repo                *)
(* (src/utils/cityBuilder.js): getAltitude, nameToAngle, sizeToScale,      *)
(* buildCityLayout and buildDemoCity; of the hook that feeds it            *)
(* (src/hooks/useGitHubData.js): parseRepoUrl, fetchRepoTree, fetchRepo,   *)
(* loadDemo; and of the presence server (activeUsers and its handlers).    *)
(*                                                                         *)
(* Representation of JavaScript values                                     *)
(*   string      a sequence of one-character strings, "src" is             *)
(*               <<"s","r","c">>                                           *)
(*   optional    <<>> is undefined, <<v>> is the value v                   *)
(*   number      [t |-> "number", n, d] is the rational n/d; the other     *)
(*               tags ("NaN", "function", "object", "undefined") are the   *)
(*               non-numeric values an expression of the code can yield    *)
(*   cos/sin     kept symbolic: an angle is a fraction of a turn plus a    *)
(*               number of degrees, a coordinate is cos or sin of an       *)
(*               angle times a radius                                      *)
(***************************************************************************)
EXTENDS Integers, Sequences, FiniteSets, TLC

\* ---------------------------------------------------------------- state
VARIABLES
    tree,       \* the tree-entry list the hook holds for the repository
    enrichedMeta, \* the repository summary
    calls,      \* number of buildCityLayout calls made so far
    layout,     \* what the latest call returned
    previous,   \* what the call before it returned
    probe,      \* the latest direct application of getAltitude
    fileProbe,  \* the file nodes made by direct applications of the file loop's body
    loading,    \* useGitHubData: the hook's state, null is <<>>
    error,
    cityData,
    narrative,
    repoInfo,
    CURRENT_REPO_INFO, \* window.CURRENT_REPO_INFO
    requests,   \* the fetchRepo and loadDemo calls made, with the await each is at
    activeUsers, \* presence server: socket id -> entry
    sockets,    \* presence server: the state of each client's connection
    emitted     \* presence server: the usersUpdated payloads sent, in order

cityVars == <<tree, enrichedMeta, calls, layout, previous>>
probeVars == <<probe, fileProbe>>
hookVars == <<loading, error, cityData, narrative, repoInfo, CURRENT_REPO_INFO, requests>>
presenceVars == <<activeUsers, sockets, emitted>>
vars == <<cityVars, probeVars, hookVars, presenceVars>>

\* ---------------------------------------------------------------- bounds
\* Longest hand-picked part of a tree-entry list.
MaxLen == 3
\* Most hand-picked entries put before or after a generated run.
MaxExtra == 1
\* Largest depth getAltitude is applied to.
MaxDepth == 6

\* ---------------------------------------------------------------- strings
Lower == <<"a","b","c","d","e","f","g","h","i","j","k","l","m",
           "n","o","p","q","r","s","t","u","v","w","x","y","z">>
Upper == <<"A","B","C","D","E","F","G","H","I","J","K","L","M",
           "N","O","P","Q","R","S","T","U","V","W","X","Y","Z">>
Digit == <<"0","1","2","3","4","5","6","7","8","9">>

IndexIn(seq, c) == CHOOSE k \in 1..Len(seq) : seq[k] = c
Occurs(seq, c) == \E k \in 1..Len(seq) : seq[k] = c

\* String.prototype.charCodeAt(0) of a one-character string.
charCodeAt(c) ==
    IF Occurs(Lower, c) THEN 96 + IndexIn(Lower, c)
    ELSE IF Occurs(Upper, c) THEN 64 + IndexIn(Upper, c)
    ELSE IF Occurs(Digit, c) THEN 47 + IndexIn(Digit, c)
    ELSE IF c = "_" THEN 95
    ELSE IF c = "/" THEN 47
    ELSE IF c = "." THEN 46
    ELSE 45  \* "-"

\* String.prototype.toLowerCase
toLowerCase(s) ==
    [k \in 1..Len(s) |-> IF Occurs(Upper, s[k]) THEN Lower[IndexIn(Upper, s[k])] ELSE s[k]]

\* String.prototype.includes('/')
includesSlash(s) == Occurs(s, "/")

\* (path.match(/\//g) || []).length
countSlashes(s) == Cardinality({k \in 1..Len(s) : s[k] = "/"})

\* path.split('/').pop(): the text after the last '/'
lastSegment(s) ==
    LET cuts == {k \in 1..Len(s) : s[k] = "/"}
        from == IF cuts = {} THEN 1 ELSE 1 + (CHOOSE k \in cuts : \A j \in cuts : j <= k)
    IN  SubSeq(s, from, Len(s))

\* decimal text of a natural number, as a template literal prints it
RECURSIVE decimal(_)
decimal(n) == IF n < 10 THEN <<Digit[n + 1]>> ELSE decimal(n \div 10) \o <<Digit[(n % 10) + 1]>>

\* ---------------------------------------------------------------- numbers
RECURSIVE Gcd(_, _)
Gcd(a, b) == IF b = 0 THEN a ELSE Gcd(b, a % b)
Abs(x) == IF x < 0 THEN -x ELSE x

\* the rational n/d (d > 0) in lowest terms
Frac(n, d) ==
    LET g == Gcd(Abs(n), d) IN [t |-> "number", n |-> n \div g, d |-> d \div g]
Num(n) == [t |-> "number", n |-> n, d |-> 1]
NaN == [t |-> "NaN", n |-> 0, d |-> 1]
Undefined == [t |-> "undefined", n |-> 0, d |-> 1]
\* Object.prototype.constructor (a function) and Object.prototype itself
ObjectFunction == [t |-> "function", n |-> 0, d |-> 1]
ObjectPrototype == [t |-> "object", n |-> 0, d |-> 1]

IsNumber(v) == v.t = "number"
\* ToNumber of a value used in arithmetic: a function or a plain object is NaN
ToNumber(v) == IF IsNumber(v) THEN v ELSE NaN
Plus(a, b) ==
    LET x == ToNumber(a)  y == ToNumber(b)
    IN  IF IsNumber(x) /\ IsNumber(y) THEN Frac(x.n * y.d + y.n * x.d, x.d * y.d) ELSE NaN
Times(a, b) ==
    LET x == ToNumber(a)  y == ToNumber(b)
    IN  IF IsNumber(x) /\ IsNumber(y) THEN Frac(x.n * y.n, x.d * y.d) ELSE NaN
\* a > b of JavaScript: false as soon as one side is NaN
Greater(a, b) ==
    LET x == ToNumber(a)  y == ToNumber(b)
    IN  IsNumber(x) /\ IsNumber(y) /\ x.n * y.d > y.n * x.d
\* a >= b on numbers
AtLeast(a, b) == IsNumber(a) /\ IsNumber(b) /\ a.n * b.d >= b.n * a.d

\* ---------------------------------------------------------------- names
S_src == <<"s","r","c">>
S_core == <<"c","o","r","e">>
S_lib == <<"l","i","b">>
S_main == <<"m","a","i","n">>
S_api == <<"a","p","i">>
S_app == <<"a","p","p">>
S_components == <<"c","o","m","p","o","n","e","n","t","s">>
S_utils == <<"u","t","i","l","s">>
S_services == <<"s","e","r","v","i","c","e","s">>
S_hooks == <<"h","o","o","k","s">>
S_store == <<"s","t","o","r","e">>
S_context == <<"c","o","n","t","e","x","t">>
S_assets == <<"a","s","s","e","t","s">>
S_styles == <<"s","t","y","l","e","s">>
S_public == <<"p","u","b","l","i","c">>
S_static == <<"s","t","a","t","i","c">>
S_test == <<"t","e","s","t">>
S_tests == <<"t","e","s","t","s">>
S___tests__ == <<"_","_","t","e","s","t","s","_","_">>
S_examples == <<"e","x","a","m","p","l","e","s">>
S_docs == <<"d","o","c","s">>
S_deprecated == <<"d","e","p","r","e","c","a","t","e","d">>
S_legacy == <<"l","e","g","a","c","y">>

\* the own properties of the object literal ALTITUDE_MAP
ALTITUDE_MAP ==
    { <<S_src, 12>>, <<S_core, 11>>, <<S_lib, 10>>, <<S_main, 10>>, <<S_api, 9>>, <<S_app, 9>>,
      <<S_components, 7>>, <<S_utils, 6>>, <<S_services, 6>>, <<S_hooks, 6>>, <<S_store, 6>>,
      <<S_context, 6>>,
      <<S_assets, 4>>, <<S_styles, 4>>, <<S_public, 4>>, <<S_static, 4>>,
      <<S_test, 2>>, <<S_tests, 2>>, <<S___tests__, 2>>, <<S_examples, 2>>,
      <<S_docs, 1>>, <<S_deprecated, 0>>, <<S_legacy, 0>> }
WellKnown == {e[1] : e \in ALTITUDE_MAP}

\* what ALTITUDE_MAP inherits: an object literal has Object.prototype as its
\* prototype, so a key that is no own property is looked up there
S_constructor == <<"c","o","n","s","t","r","u","c","t","o","r">>
S___proto__ == <<"_","_","p","r","o","t","o","_","_">>
S_toString == <<"t","o","S","t","r","i","n","g">>
S_valueOf == <<"v","a","l","u","e","O","f">>
S_hasOwnProperty == <<"h","a","s","O","w","n","P","r","o","p","e","r","t","y">>
ObjectPrototypeKeys == {S_constructor, S___proto__, S_toString, S_valueOf, S_hasOwnProperty}

\* ALTITUDE_MAP[key]
AltitudeLookup(key) ==
    IF key \in WellKnown THEN Num((CHOOSE e \in ALTITUDE_MAP : e[1] = key)[2])
    ELSE IF key = S___proto__ THEN ObjectPrototype
    ELSE IF key \in ObjectPrototypeKeys THEN ObjectFunction
    ELSE Undefined

Max(a, b) == IF a >= b THEN a ELSE b
Min(a, b) == IF a <= b THEN a ELSE b

\* getAltitude without the toLowerCase call
getAltitude_CaseSensitive(name, depth) ==
    IF AltitudeLookup(name) # Undefined THEN AltitudeLookup(name)
    ELSE Num(Max(0, 8 - depth * 2))

getAltitude(name, depth) ==
    LET key == toLowerCase(name)
    IN  IF AltitudeLookup(key) # Undefined THEN AltitudeLookup(key)
        ELSE Num(Max(0, 8 - depth * 2))
\* ---------------------------------------------------------------- geometry
\* an angle: turn * 2*PI + deg * PI/180 + rad
AngleOf(turn, deg, rad) == [turn |-> turn, deg |-> deg, rad |-> rad]
\* a radius: base + sin(phase) * amp
RadiusOf(base, amp, phase) == [base |-> base, amp |-> amp, phase |-> phase]
NoAngle == AngleOf(Num(0), Num(0), Num(0))
NoRadius == RadiusOf(Num(0), Num(0), Num(0))
\* a coordinate: a plain value, or Math.cos(angle) * radius, or Math.sin(angle) * radius
Const(v) == [op |-> "const", v |-> v, angle |-> NoAngle, radius |-> NoRadius]
CosTimes(angle, radius) == [op |-> "cos", v |-> Num(0), angle |-> angle, radius |-> radius]
SinTimes(angle, radius) == [op |-> "sin", v |-> Num(0), angle |-> angle, radius |-> radius]
Point(x, y, z) == <<Const(Num(x)), Const(Num(y)), Const(Num(z))>>
Origin == Point(0, 0, 0)

\* ---------------------------------------------------------------- helpers
ISLAND_RADIUS_BASE == 14
\* slice(0, 16) of the top-level directories, slice(0, 8) of the files
MaxDirs == 16
MaxFiles == 8

RECURSIVE SumCodes(_)
SumCodes(s) == IF s = <<>> THEN 0 ELSE charCodeAt(Head(s)) + SumCodes(Tail(s))

\* the jitter taken without the reduction modulo 30
nameToAngle_NoModulo(name, index, total) ==
    LET hash == SumCodes(name)
    IN  AngleOf(Frac(index, total), Num(hash), Num(0))

nameToAngle(name, index, total) ==
    LET hash == SumCodes(name)
    IN  AngleOf(Frac(index, total), Num(hash % 30), Num(0))

\* the steps without the last one
sizeToScale_Capped(size) ==
    IF size < 10000 THEN Frac(6, 10)
    ELSE IF size < 50000 THEN Frac(9, 10)
    ELSE IF size < 200000 THEN Frac(12, 10)
    ELSE Frac(16, 10)

sizeToScale(size) ==
    IF size < 10000 THEN Frac(6, 10)
    ELSE IF size < 50000 THEN Frac(9, 10)
    ELSE IF size < 200000 THEN Frac(12, 10)
    ELSE IF size < 1000000 THEN Frac(16, 10)
    ELSE Num(2)

\* x || fallback on an optional number: undefined and 0 are falsy
OrNumber(opt, fallback) == IF opt = <<>> \/ opt[1] = 0 THEN fallback ELSE opt[1]
\* x || fallback on a string: undefined and '' are falsy
OrString(s, fallback) == IF s = <<>> THEN fallback ELSE s

slice(seq, n) == SubSeq(seq, 1, Min(n, Len(seq)))

\* Array.prototype.sort((a, b) => (b.size || 0) - (a.size || 0)): descending by
\* size, entries of equal size keep their order (the sort is stable)
RECURSIVE InsertBySize(_, _)
InsertBySize(sorted, e) ==
    IF sorted = <<>> THEN <<e>>
    ELSE IF OrNumber(Head(sorted).size, 0) >= OrNumber(e.size, 0)
         THEN <<Head(sorted)>> \o InsertBySize(Tail(sorted), e)
         ELSE <<e>> \o sorted
RECURSIVE sortBySizeDesc(_)
sortBySizeDesc(seq) ==
    IF seq = <<>> THEN <<>>
    ELSE InsertBySize(sortBySizeDesc(SubSeq(seq, 1, Len(seq) - 1)), seq[Len(seq)])

S_core_station == <<"c","o","r","e","-","s","t","a","t","i","o","n">>
S_dir_ == <<"d","i","r","-">>
S_file_ == <<"f","i","l","e","-">>
S_conn_core_ == <<"c","o","n","n","-","c","o","r","e","-">>
S_DemoRepo == <<"D","e","m","o","R","e","p","o">>

\* ---------------------------------------------------------------- demo city
S_index_js == <<"i","n","d","e","x",".","j","s">>
S_config_json == <<"c","o","n","f","i","g",".","j","s","o","n">>
S_README_md == <<"R","E","A","D","M","E",".","m","d">>
S_main_file == <<"m","a","i","n","-","f","i","l","e">>
S_config_file == <<"c","o","n","f","i","g","-","f","i","l","e">>
S_readme == <<"r","e","a","d","m","e">>

\* one directory line of the hand-written demo list
DemoDirectory(name, position, scale, altitude, angle, orbitSpeed, orbitRadius) ==
    [id |-> name, name |-> <<name>>, type |-> "directory", position |-> position,
     scale |-> scale, altitude |-> Num(altitude), angle |-> AngleOf(Num(0), Num(0), angle),
     orbitSpeed |-> orbitSpeed, orbitRadius |-> RadiusOf(Num(orbitRadius), Num(0), Num(0))]
\* one file line of the hand-written demo list
DemoFile(id, name, type, position, scale, altitude, fileSize) ==
    [id |-> id, name |-> <<name>>, type |-> type, position |-> position,
     scale |-> scale, altitude |-> Num(altitude), fileSize |-> fileSize]
\* one line of the hand-written demo connections, 'c<k>'
DemoConnection(k, from, to, thickness, isPrimary) ==
    [id |-> <<"c">> \o decimal(k), from |-> from, to |-> to,
     thickness |-> thickness, isPrimary |-> isPrimary]

\* the name taken from nowhere
DemoName_Always(repoMeta) == S_DemoRepo

\* repoMeta?.name || 'DemoRepo'
DemoName(repoMeta) ==
    IF repoMeta.isNull \/ repoMeta.name = <<>> THEN S_DemoRepo
    ELSE OrString(repoMeta.name[1], S_DemoRepo)

buildDemoCity(repoMeta) ==
    [threw |-> FALSE,
     islands |-> <<
        [id |-> S_core_station, name |-> <<DemoName(repoMeta)>>, type |-> "core",
         position |-> Origin, scale |-> Frac(25, 10), altitude |-> Num(0),
         isCore |-> TRUE, fileCount |-> 247],
        DemoDirectory(S_src, Point(-12, 7, -5), Frac(14, 10), 12, Num(0), Frac(3, 10000), 13),
        DemoDirectory(S_api, Point(10, 6, -8), Frac(13, 10), 9, Frac(12, 10), Frac(25, 100000), 13),
        DemoDirectory(S_components, Point(5, 2, 12), Frac(11, 10), 7, Frac(21, 10), Frac(22, 100000), 13),
        DemoDirectory(S_utils, Point(-8, 1, 10), Num(1), 6, Num(3), Frac(2, 10000), 12),
        DemoDirectory(S_hooks, Point(14, 1, 3), Frac(9, 10), 6, Frac(38, 10), Frac(18, 100000), 14),
        DemoDirectory(S_store, Point(-14, 0, -3), Frac(9, 10), 6, Frac(45, 10), Frac(17, 100000), 14),
        DemoDirectory(S_assets, Point(3, -3, -14), Frac(8, 10), 4, Frac(52, 10), Frac(15, 100000), 14),
        DemoDirectory(S_tests, Point(-6, -5, -12), Frac(7, 10), 2, Frac(59, 10), Frac(12, 100000), 13),
        DemoDirectory(S_docs, Point(12, -6, 7), Frac(65, 100), 1, Frac(8, 10), Frac(1, 10000), 14),
        DemoFile(S_main_file, S_index_js, "sun", Point(4, 5, 4), Frac(12, 10), 8, 80000),
        DemoFile(S_config_file, S_config_json, "star", Point(-4, 3, 5), Frac(7, 10), 5, 5000),
        DemoFile(S_readme, S_README_md, "star", Point(6, 2, -5), Frac(65, 100), 3, 3000) >>,
     connections |-> <<
        DemoConnection(1, Origin, Point(-12, 7, -5), Num(2), TRUE),
        DemoConnection(2, Origin, Point(10, 6, -8), Num(2), TRUE),
        DemoConnection(3, Origin, Point(5, 2, 12), Frac(15, 10), TRUE),
        DemoConnection(4, Origin, Point(-8, 1, 10), Num(1), FALSE),
        DemoConnection(5, Origin, Point(14, 1, 3), Num(1), FALSE),
        DemoConnection(6, Origin, Point(-14, 0, -3), Num(1), FALSE),
        DemoConnection(7, Origin, Point(3, -3, -14), Frac(8, 10), FALSE),
        DemoConnection(8, Origin, Point(-6, -5, -12), Frac(6, 10), FALSE),
        DemoConnection(9, Point(-12, 7, -5), Point(5, 2, 12), Num(1), FALSE),
        DemoConnection(10, Point(10, 6, -8), Point(14, 1, 3), Frac(8, 10), FALSE) >>]

\* ---------------------------------------------------------------- computed city
\* the core placed like a directory island, y = altitude - 5
CoreIsland_LikeDirectory(treeData, repoMeta) ==
    [id |-> S_core_station, name |-> repoMeta.name, type |-> "core",
     position |-> Point(0, -5, 0), scale |-> Frac(25, 10), altitude |-> Num(0),
     color |-> "null", fileCount |-> Len(treeData), isCore |-> TRUE]

\* the object pushed for the repository itself
CoreIsland(treeData, repoMeta) ==
    [id |-> S_core_station, name |-> repoMeta.name, type |-> "core",
     position |-> Origin, scale |-> Frac(25, 10), altitude |-> Num(0),
     color |-> "null", fileCount |-> Len(treeData), isCore |-> TRUE]

\* the link drawn to the island's place on the ground plane, not to the island
CoreConnection_ToGround(i, pos, altitude) ==
    [id |-> S_conn_core_ \o decimal(i), from |-> Origin,
     to |-> <<pos[1], Const(Num(0)), pos[3]>>,
     thickness |-> IF Greater(altitude, Num(8)) THEN Num(2) ELSE Num(1),
     isPrimary |-> Greater(altitude, Num(7))]

\* isPrimary decided with >= 7 in place of > 7
CoreConnection_AtLeast(i, pos, altitude) ==
    [id |-> S_conn_core_ \o decimal(i), from |-> Origin, to |-> pos,
     thickness |-> IF Greater(altitude, Num(8)) THEN Num(2) ELSE Num(1),
     isPrimary |-> AtLeast(altitude, Num(7))]

\* connections.push({...}): the link from the core to directory i
CoreConnection(i, pos, altitude) ==
    [id |-> S_conn_core_ \o decimal(i), from |-> Origin, to |-> pos,
     thickness |-> IF Greater(altitude, Num(8)) THEN Num(2) ELSE Num(1),
     isPrimary |-> Greater(altitude, Num(7))]

\* the body of topDirs.forEach((dir, i) => ...): the island and its connection
DirectoryStep(dir, i, total) ==
    LET name == lastSegment(dir.path)
        depth == countSlashes(dir.path)
        altitude == getAltitude(name, depth)
        angle == nameToAngle(name, i, total)
        radius == RadiusOf(Num(ISLAND_RADIUS_BASE), Num(4), Frac(i * 13, 10))
        scale == Plus(Frac(8, 10), Times(altitude, Frac(1, 15)))
        pos == <<CosTimes(angle, radius), Const(Plus(altitude, Num(-5))), SinTimes(angle, radius)>>
    IN  [island |->
            [id |-> OrString(dir.sha, S_dir_ \o decimal(i)), name |-> <<name>>,
             type |-> "directory", position |-> pos, scale |-> scale, altitude |-> altitude,
             angle |-> angle,
             orbitSpeed |-> Plus(Frac(2, 10000), Times(altitude, Frac(3, 100000))),
             orbitRadius |-> radius, depth |-> depth, originalPath |-> dir.path],
         connection |-> CoreConnection(i, pos, altitude)]

\* the file loop's body with the threshold taken inclusively
FileIsland_Inclusive(file, i, total) ==
    LET name == lastSegment(file.path)
        size == OrNumber(file.size, 1000)
        angle == AngleOf(Frac(i, total), Num(45), Num(0))
        radius == RadiusOf(Num(6 + (i % 3) * 2), Num(0), Num(0))
        altitude == 2 + (IF size >= 50000 THEN 4 ELSE 0)
    IN  [id |-> OrString(file.sha, S_file_ \o decimal(i)), name |-> <<name>>,
         type |-> IF size >= 50000 THEN "sun" ELSE "star",
         position |-> <<CosTimes(angle, radius), Const(Num(altitude - 3)), SinTimes(angle, radius)>>,
         scale |-> sizeToScale(size), altitude |-> Num(altitude),
         fileSize |-> size, originalPath |-> file.path]

\* the file loop's body with a radius that grows with the index
FileIsland_RadiusByIndex(file, i, total) ==
    LET name == lastSegment(file.path)
        size == OrNumber(file.size, 1000)
        angle == AngleOf(Frac(i, total), Num(45), Num(0))
        radius == RadiusOf(Num(6 + i * 2), Num(0), Num(0))
        altitude == 2 + (IF size > 50000 THEN 4 ELSE 0)
    IN  [id |-> OrString(file.sha, S_file_ \o decimal(i)), name |-> <<name>>,
         type |-> IF size > 50000 THEN "sun" ELSE "star",
         position |-> <<CosTimes(angle, radius), Const(Num(altitude - 3)), SinTimes(angle, radius)>>,
         scale |-> sizeToScale(size), altitude |-> Num(altitude),
         fileSize |-> size, originalPath |-> file.path]

\* the body of topFiles.forEach((file, i) => ...)
FileIsland(file, i, total) ==
    LET name == lastSegment(file.path)
        size == OrNumber(file.size, 1000)
        angle == AngleOf(Frac(i, total), Num(45), Num(0))
        radius == RadiusOf(Num(6 + (i % 3) * 2), Num(0), Num(0))
        altitude == 2 + (IF size > 50000 THEN 4 ELSE 0)
    IN  [id |-> OrString(file.sha, S_file_ \o decimal(i)), name |-> <<name>>,
         type |-> IF size > 50000 THEN "sun" ELSE "star",
         position |-> <<CosTimes(angle, radius), Const(Num(altitude - 3)), SinTimes(angle, radius)>>,
         scale |-> sizeToScale(size), altitude |-> Num(altitude),
         fileSize |-> size, originalPath |-> file.path]

IsTree(item) == item.type = "tree"
IsBlob(item) == item.type = "blob"
IsTopLevel(d) == ~includesSlash(d.path)

\* the files cut to 8 before they are sorted
TopFiles_SliceBeforeSort(treeData) == sortBySizeDesc(slice(SelectSeq(treeData, IsBlob), MaxFiles))

\* the directories taken without the top-level filter
TopDirs_AnyDepth(treeData) == slice(SelectSeq(treeData, IsTree), MaxDirs)

\* The arrays of one call, in the order they come to exist: arrays[1] is the
\* caller's treeData, and an array is named by its index. filter and slice
\* make a new array and leave their receiver alone; sort reorders its receiver.

\* a filter that also removes the rejected entries from its receiver
filterByType_InPlace(arrays, ref, type) ==
    LET Keep(item) == item.type = type
        kept == SelectSeq(arrays[ref], Keep)
    IN  Append([arrays EXCEPT ![ref] = kept], kept)

\* Array.prototype.filter(item => item.type === type)
filterByType(arrays, ref, type) ==
    LET Keep(item) == item.type = type
    IN  Append(arrays, SelectSeq(arrays[ref], Keep))
\* Array.prototype.filter(d => !d.path.includes('/'))
filterTopLevel(arrays, ref) == Append(arrays, SelectSeq(arrays[ref], IsTopLevel))
\* Array.prototype.sort(by size, descending), in place
sortInPlace(arrays, ref) == [arrays EXCEPT ![ref] = sortBySizeDesc(arrays[ref])]
\* Array.prototype.slice(0, n)
sliceTo(arrays, ref, n) == Append(arrays, slice(arrays[ref], n))

\* lines 55-59 and 78: 2 is dirs, 3 the filtered files (sorted), 4 topFiles,
\* 5 the top-level directories, 6 topDirs
ArraysAfter(treeData) ==
    LET dirs == filterByType(<<treeData>>, 1, "tree")
        blobs == filterByType(dirs, 1, "blob")
        sorted == sortInPlace(blobs, 3)
        topFiles == sliceTo(sorted, 3, MaxFiles)
        topLevel == filterTopLevel(topFiles, 2)
    IN  sliceTo(topLevel, 5, MaxDirs)

\* treeData.filter(blob).sort(by size, descending).slice(0, 8)
TopFiles(treeData) == ArraysAfter(treeData)[4]
\* dirs.filter(d => !d.path.includes('/')).slice(0, 16)
TopDirs(treeData) == ArraysAfter(treeData)[6]

\* the caller's list as the call leaves it (line 52 returns before any array
\* method is called on a missing or empty list)
TreeDataAfter(treeData) ==
    IF treeData.isNull \/ Len(treeData.items) = 0 THEN treeData
    ELSE [treeData EXCEPT !.items = ArraysAfter(treeData.items)[1]]

\* reading repoMeta.name of a null or undefined repoMeta is a TypeError
Thrown == [threw |-> TRUE, islands |-> <<>>, connections |-> <<>>]

\* lines 54-141: the layout of a non-empty list
\* the file loop run before the directory loop
ComputedCity_FilesFirst(treeData, repoMeta) ==
    LET topFiles == TopFiles(treeData)
        topDirs == TopDirs(treeData)
        steps == [k \in 1..Len(topDirs) |-> DirectoryStep(topDirs[k], k - 1, Len(topDirs))]
    IN  [threw |-> FALSE,
         islands |-> <<CoreIsland(treeData, repoMeta)>>
                     \o [k \in 1..Len(topFiles) |-> FileIsland(topFiles[k], k - 1, Len(topFiles))]
                     \o [k \in 1..Len(topDirs) |-> steps[k].island],
         connections |-> [k \in 1..Len(topDirs) |-> steps[k].connection]]

ComputedCity(treeData, repoMeta) ==
    LET topFiles == TopFiles(treeData)
        topDirs == TopDirs(treeData)
        steps == [k \in 1..Len(topDirs) |-> DirectoryStep(topDirs[k], k - 1, Len(topDirs))]
    IN  [threw |-> FALSE,
         islands |-> <<CoreIsland(treeData, repoMeta)>>
                     \o [k \in 1..Len(topDirs) |-> steps[k].island]
                     \o [k \in 1..Len(topFiles) |-> FileIsland(topFiles[k], k - 1, Len(topFiles))],
         connections |-> [k \in 1..Len(topDirs) |-> steps[k].connection]]

\* the fallback taken for a missing list only, not for an empty one
buildCityLayout_MissingOnly(treeData, repoMeta) ==
    IF treeData.isNull THEN buildDemoCity(repoMeta)
    ELSE IF repoMeta.isNull THEN Thrown
    ELSE ComputedCity(treeData.items, repoMeta)

\* islands and connections kept in module-level arrays that are never emptied:
\* a call returns what the calls before it pushed, too
buildCityLayout_SharedArrays(treeData, repoMeta) ==
    IF treeData.isNull \/ Len(treeData.items) = 0 THEN buildDemoCity(repoMeta)
    ELSE IF repoMeta.isNull THEN Thrown
    ELSE LET city == ComputedCity(treeData.items, repoMeta)
         IN  [city EXCEPT !.islands = layout.islands \o city.islands,
                          !.connections = layout.connections \o city.connections]

\* treeData: [isNull, items]; the value returned, or Thrown
\* an empty or missing list answered by an exception, not by the fallback
buildCityLayout_ThrowOnEmpty(treeData, repoMeta) ==
    IF treeData.isNull \/ Len(treeData.items) = 0 THEN Thrown
    ELSE IF repoMeta.isNull THEN Thrown
    ELSE ComputedCity(treeData.items, repoMeta)

buildCityLayout(treeData, repoMeta) ==
    IF treeData.isNull \/ Len(treeData.items) = 0 THEN buildDemoCity(repoMeta)
    ELSE IF repoMeta.isNull THEN Thrown
    ELSE ComputedCity(treeData.items, repoMeta)

\* ---------------------------------------------------------------- inputs
S_a1 == <<"a","1">>
S_a2 == <<"a","2">>
S_b1 == <<"b","1">>
S_b2 == <<"b","2">>
S_demo == <<"d","e","m","o">>
S_Components == <<"C","o","m","p","o","n","e","n","t","s">>
S_src_lib == <<"s","r","c","/","l","i","b">>
S_src_index_js == <<"s","r","c","/","i","n","d","e","x",".","j","s">>
S_a_txt == <<"a",".","t","x","t">>
S_README == <<"R","E","A","D","M","E">>
S_LICENSE == <<"L","I","C","E","N","S","E">>
S_notes == <<"n","o","t","e","s">>
S_vendor_sub == <<"v","e","n","d","o","r","/","s","u","b">>

\* one entry of the tree list of the GitHub API: size and sha may be absent;
\* mode stands for the fields of an entry the layout never reads
Entry(path, type, size, sha) ==
    [path |-> path, type |-> type, size |-> size, sha |-> sha, mode |-> "100644"]

\* hand-picked entries: a well-known directory with a sha, one matched only
\* after lower-casing, one named like an inherited property, a nested one;
\* files at and around the 50000-byte threshold, without size, two with the
\* same sha (same content); a submodule entry, neither tree nor blob
Pool ==
    { Entry(S_src, "tree", <<>>, S_a1),
      Entry(S_Components, "tree", <<>>, <<>>),
      Entry(S_constructor, "tree", <<>>, <<>>),
      Entry(S_src_lib, "tree", <<>>, S_a2),
      Entry(S_src_index_js, "blob", <<80000>>, S_b1),
      Entry(S_a_txt, "blob", <<50000>>, <<>>),
      Entry(S_README, "blob", <<>>, S_b2),
      Entry(S_LICENSE, "blob", <<0>>, S_b2),
      Entry(S_notes, "blob", <<500>>, <<>>),
      Entry(S_vendor_sub, "commit", <<>>, <<>>) }

\* lists of at most n distinct pool entries, in every order
RECURSIVE ListsUpTo(_)
ListsUpTo(n) ==
    IF n = 0 THEN {<<>>}
    ELSE LET shorter == ListsUpTo(n - 1)
         IN  shorter \cup
             { Append(l, e) : <<l, e>> \in
                 { <<l, e>> \in shorter \X Pool : \A k \in 1..Len(l) : l[k] # e } }

RECURSIVE Power(_, _)
Power(b, e) == IF e = 0 THEN 1 ELSE b * Power(b, e - 1)

\* a run of k generated top-level directories 'ma', 'mb', ... (no sha), with
\* the nested directory 'ma/x' listed right after 'ma'
BulkDirs(k) ==
    IF k = 0 THEN <<>>
    ELSE <<Entry(<<"m", "a">>, "tree", <<>>, <<>>), Entry(<<"m", "a", "/", "x">>, "tree", <<>>, <<>>)>>
         \o [j \in 1..(k - 1) |-> Entry(<<"m", Lower[j + 1]>>, "tree", <<>>, <<>>)]
\* a run of k generated files 'fa', 'fb', ... of growing size 5000 * 4^(j-1)
BulkFiles(k) == [j \in 1..k |-> Entry(<<"f", Lower[j]>>, "blob", <<5000 * Power(4, j - 1)>>, <<>>)]

\* the runs added to a hand-picked list to reach a cap: as many generated
\* directories as slice keeps, as many generated files as slice keeps, or both
Bulks ==
    { BulkDirs(d) \o BulkFiles(f) : <<d, f>> \in {0, MaxDirs} \X {0, MaxFiles} } \ {<<>>}

\* the lists the layout is computed from: short ones in every order, and long
\* ones that meet a cap (run alone) or pass it (run before or after entries)
TreeLists ==
    ListsUpTo(MaxLen) \cup
    { l \o b : <<l, b>> \in ListsUpTo(MaxExtra) \X Bulks } \cup
    { b \o l : <<l, b>> \in ListsUpTo(MaxExtra) \X Bulks }

NullTree == [isNull |-> TRUE, items |-> <<>>]
Trees == {NullTree} \cup { [isNull |-> FALSE, items |-> l] : l \in TreeLists }

\* the repository summary: null, without a name, or named 'demo'
NullMeta == [isNull |-> TRUE, name |-> <<>>, stargazers_count |-> 0]
NamedMeta == [isNull |-> FALSE, name |-> <<S_demo>>, stargazers_count |-> 0]
Metas ==
    { NullMeta,
      [isNull |-> FALSE, name |-> <<>>, stargazers_count |-> 0],
      [isNull |-> FALSE, name |-> << <<>> >>, stargazers_count |-> 0],
      NamedMeta }

\* ---------------------------------------------------------------- transitions
NotCalled == [threw |-> FALSE, islands |-> <<>>, connections |-> <<>>]
\* bound on the number of buildCityLayout calls in one behaviour
MaxCalls == 2
NoProbe == [done |-> FALSE, again |-> FALSE, name |-> <<>>, depth |-> 0, result |-> Undefined,
            earlierDepth |-> 0, earlierResult |-> Undefined]

\* useState(false), useState(null) x 4: the hook as mounted, nothing requested
Mounted ==
    /\ loading = FALSE
    /\ error = <<>>
    /\ cityData = <<>>
    /\ narrative = <<>>
    /\ repoInfo = <<>>
    /\ CURRENT_REPO_INFO = <<>>
    /\ requests = <<>>

\* const activeUsers = {}: the server as started, no client has connected
Listening ==
    /\ activeUsers = <<>>
    /\ sockets = <<>>
    /\ emitted = <<>>

Init ==
    /\ tree \in Trees
    /\ enrichedMeta \in Metas
    /\ (enrichedMeta = NamedMeta \/ Len(tree.items) <= 1)
    /\ calls = 0
    /\ layout = NotCalled
    /\ previous = NotCalled
    /\ probe = NoProbe
    /\ fileProbe = <<>>
    /\ Mounted
    /\ Listening

\* fetchRepo, step 3: the layout is computed from the tree and the summary
Build ==
    /\ calls < MaxCalls
    /\ previous' = layout
    /\ layout' = buildCityLayout(tree, enrichedMeta)
    /\ calls' = calls + 1
    /\ tree' = TreeDataAfter(tree)
    /\ UNCHANGED <<enrichedMeta, probeVars, hookVars, presenceVars>>

\* the same repository fetched again: paths, types, sizes, shas, order and the
\* name are what they were; the fields the layout does not read have changed
Refetch ==
    /\ calls = 1
    /\ ~enrichedMeta.isNull
    /\ enrichedMeta.stargazers_count = 0
    /\ enrichedMeta' = [enrichedMeta EXCEPT !.stargazers_count = 2847]
    /\ tree' = [tree EXCEPT !.items = [k \in 1..Len(tree.items) |->
                                          [tree.items[k] EXCEPT !.mode = "100755"]]]
    /\ UNCHANGED <<calls, layout, previous, probeVars, hookVars, presenceVars>>

Next == Build \/ Refetch

Spec == Init /\ [][Next]_vars

\* ---------------------------------------------------------------- getAltitude alone
S_zeta == <<"z","e","t","a">>
S_tostring == <<"t","o","s","t","r","i","n","g">>
toUpperCase(s) ==
    [k \in 1..Len(s) |-> IF Occurs(Lower, s[k]) THEN Upper[IndexIn(Lower, s[k])] ELSE s[k]]
Capitalized(s) == <<toUpperCase(s)[1]>> \o Tail(s)

\* the names getAltitude is applied to: the table's keys in three spellings,
\* names of inherited properties, and names found nowhere
ProbeNames ==
    WellKnown \cup {toUpperCase(k) : k \in WellKnown} \cup {Capitalized(k) : k \in WellKnown}
    \cup ObjectPrototypeKeys \cup {S_zeta, S_README, S_tostring, S_a_txt}

InitAltitude ==
    /\ tree = NullTree
    /\ enrichedMeta = NullMeta
    /\ calls = 0
    /\ layout = NotCalled
    /\ previous = NotCalled
    /\ probe = NoProbe
    /\ fileProbe = <<>>
    /\ Mounted
    /\ Listening

\* getAltitude(name, depth) for some name and depth
ProbeAltitude ==
    /\ ~probe.done
    /\ \E name \in ProbeNames, depth \in 0..MaxDepth :
          probe' = [done |-> TRUE, again |-> FALSE, name |-> name, depth |-> depth,
                    result |-> getAltitude(name, depth),
                    earlierDepth |-> 0, earlierResult |-> Undefined]
    /\ UNCHANGED <<cityVars, fileProbe, hookVars, presenceVars>>

\* getAltitude of the same name at another depth
ProbeOtherDepth ==
    /\ probe.done
    /\ ~probe.again
    /\ \E depth \in 0..MaxDepth :
          probe' = [probe EXCEPT !.again = TRUE, !.depth = depth,
                                 !.result = getAltitude(probe.name, depth),
                                 !.earlierDepth = probe.depth,
                                 !.earlierResult = probe.result]
    /\ UNCHANGED <<cityVars, fileProbe, hookVars, presenceVars>>

NextAltitude == ProbeAltitude \/ ProbeOtherDepth

SpecAltitude == InitAltitude /\ [][NextAltitude]_vars

\* ---------------------------------------------------------------- the file loop alone
\* sizes on, beside and far from the steps of sizeToScale and the sun threshold
ProbeSizes ==
    {<<>>} \cup {<<v>> : v \in {0, 1, 5000, 9999, 10000, 49999, 50000, 50001,
                                199999, 200000, 999999, 1000000, 5000000}}

InitFile ==
    /\ tree = NullTree
    /\ enrichedMeta = NullMeta
    /\ calls = 0
    /\ layout = NotCalled
    /\ previous = NotCalled
    /\ probe = NoProbe
    /\ fileProbe = <<>>
    /\ Mounted
    /\ Listening

\* topFiles.forEach on a list of two files: the body applied to the file at
\* index 0 and then to the file at index 1, which the sort put after it
ProbeFile ==
    /\ Len(fileProbe) < 2
    /\ \E size \in ProbeSizes :
          LET i == Len(fileProbe)
              file == Entry(IF i = 0 THEN S_a_txt ELSE S_README, "blob", size, <<>>)
          IN  /\ i = 1 => OrNumber(size, 0) <= OrNumber(fileProbe[1].file.size, 0)
              /\ fileProbe' = Append(fileProbe, [file |-> file, island |-> FileIsland(file, i, 2)])
    /\ UNCHANGED <<cityVars, probe, hookVars, presenceVars>>

NextFile == ProbeFile

SpecFile == InitFile /\ [][NextFile]_vars

\* ---------------------------------------------------------------- fetchRepoTree
S_canary == <<"c","a","n","a","r","y">>
S_HEAD == <<"H","E","A","D">>
S_facebook == <<"f","a","c","e","b","o","o","k">>
S_react == <<"r","e","a","c","t">>
S_vercel == <<"v","e","r","c","e","l">>
S_next_js == <<"n","e","x","t",".","j","s">>
S_lord_of_repo == <<"l","o","r","d","-","o","f","-","r","e","p","o">>

\* what GitHub holds of a repository: its recursive tree and its top-level
\* contents listing
RemoteTree ==
    <<Entry(S_src, "tree", <<>>, S_a1), Entry(S_src_index_js, "blob", <<80000>>, S_b1),
      Entry(S_README, "blob", <<3000>>, S_b2)>>
RemoteContents ==
    <<[path |-> S_src, type |-> "dir", sha |-> S_a1, size |-> <<0>>],
      [path |-> S_README, type |-> "file", sha |-> S_b2, size |-> <<3000>>]>>

\* the ways one request of ghFetch ends: it throws (network failure or a
\* status that is not ok), or it resolves to a body; has says whether the body
\* holds a tree (tree requests) or is an array (contents request)
Threw == [threw |-> TRUE, has |-> FALSE, items |-> <<>>]
Resolved(has, items) == [threw |-> FALSE, has |-> has, items |-> items]
TreeResponses == {Threw, Resolved(FALSE, <<>>), Resolved(TRUE, <<>>), Resolved(TRUE, RemoteTree)}
ContentsResponses == {Threw, Resolved(FALSE, <<>>), Resolved(TRUE, <<>>), Resolved(TRUE, RemoteContents)}

\* contents.map(item => ({ path, type: item.type === 'dir' ? 'tree' : 'blob', sha, size: item.size || 0 }))
FromContents(items) ==
    [k \in 1..Len(items) |->
        [path |-> items[k].path, type |-> IF items[k].type = "dir" THEN "tree" ELSE "blob",
         sha |-> items[k].sha, size |-> <<OrNumber(items[k].size, 0)>>]]

\* a call of fetchRepoTree(owner, repo, defaultBranch) that has made no request yet
TreeCall(owner, repo, defaultBranch) ==
    [owner |-> owner, repo |-> repo, defaultBranch |-> defaultBranch,
     pc |-> "tree", attempts |-> <<>>, returned |-> <<>>]

\* the request the call is at: the tree of the default branch, the tree of
\* HEAD, the contents listing
RequestOf(call) ==
    [owner |-> call.owner, repo |-> call.repo,
     endpoint |-> IF call.pc = "contents" THEN "contents" ELSE "git/trees",
     ref |-> CASE call.pc = "tree" -> call.defaultBranch
               [] call.pc = "HEAD-tree" -> S_HEAD
               [] OTHER -> <<>>]

\* the try block after the one that did not return; with the contents listing skipped
AfterFailure_NoContents(pc) == IF pc = "tree" THEN "HEAD-tree" ELSE "return []"

\* the try block after the one that did not return
AfterFailure(pc) ==
    CASE pc = "tree" -> "HEAD-tree"
      [] pc = "HEAD-tree" -> "contents"
      [] pc = "contents" -> "return []"

\* one try block of fetchRepoTree: the request is made and its outcome handled
Attempt(call, response) ==
    LET made == Append(call.attempts, [request |-> RequestOf(call), response |-> response])
        next == AfterFailure(call.pc)
    IN  IF ~response.threw /\ response.has
        THEN [call EXCEPT !.pc = "returned", !.attempts = made,
                          !.returned = <<IF call.pc = "contents" THEN FromContents(response.items)
                                                                  ELSE response.items>>]
        ELSE IF next = "return []"
        THEN [call EXCEPT !.pc = "returned", !.attempts = made, !.returned = << <<>> >>]
        ELSE [call EXCEPT !.pc = next, !.attempts = made]

\* the responses the request the call is at can get
ResponsesTo(call) == IF call.pc = "contents" THEN ContentsResponses ELSE TreeResponses

\* fetchRepoTree alone ------------------------------------------------------
InitTree ==
    /\ tree = NullTree
    /\ enrichedMeta = NullMeta
    /\ calls = 0
    /\ layout = NotCalled
    /\ previous = NotCalled
    /\ probe = NoProbe
    /\ fileProbe = <<>>
    /\ loading = FALSE
    /\ error = <<>>
    /\ cityData = <<>>
    /\ narrative = <<>>
    /\ repoInfo = <<>>
    /\ CURRENT_REPO_INFO = <<>>
    /\ \E repo \in {<<S_facebook, S_react>>, <<S_vercel, S_next_js>>},
          defaultBranch \in {S_main, S_canary, S_demo} :
          requests = <<TreeCall(repo[1], repo[2], defaultBranch)>>
    /\ Listening

\* the request of the try block the call is at gets its response
TreeAttempt ==
    /\ requests[1].pc # "returned"
    /\ \E response \in ResponsesTo(requests[1]) :
          requests' = <<Attempt(requests[1], response)>>
    /\ UNCHANGED <<cityVars, probeVars, loading, error, cityData, narrative, repoInfo,
                   CURRENT_REPO_INFO, presenceVars>>

NextTree == TreeAttempt

SpecTree == InitTree /\ [][NextTree]_vars

\* ---------------------------------------------------------------- useGitHubData
\* most fetchRepo and loadDemo calls made in one behaviour
MaxRequests == 2

\* the part of s before the first c: s.split(c)[0]
Before(s, c) ==
    LET at == {k \in 1..Len(s) : s[k] = c}
    IN  IF at = {} THEN s ELSE SubSeq(s, 1, (CHOOSE k \in at : \A j \in at : k <= j) - 1)
\* s.replace(/suffix$/, '')
WithoutSuffix(s, suffix) ==
    IF Len(s) >= Len(suffix) /\ SubSeq(s, Len(s) - Len(suffix) + 1, Len(s)) = suffix
    THEN SubSeq(s, 1, Len(s) - Len(suffix)) ELSE s
\* s.replace(/^prefix/, '')
WithoutPrefix(s, prefix) ==
    IF Len(s) >= Len(prefix) /\ SubSeq(s, 1, Len(prefix)) = prefix
    THEN SubSeq(s, Len(prefix) + 1, Len(s)) ELSE s
\* s.trim(), for blanks
trim(s) ==
    LET kept == {k \in 1..Len(s) : s[k] # " "}
    IN  IF kept = {} THEN <<>>
        ELSE SubSeq(s, CHOOSE k \in kept : \A j \in kept : k <= j,
                       CHOOSE k \in kept : \A j \in kept : k >= j)
\* s.split('/').filter(Boolean)
SplitParts(s) ==
    LET starts == {k \in 1..Len(s) : s[k] # "/" /\ (k = 1 \/ s[k - 1] = "/")}
        endOf(k) == CHOOSE j \in k..Len(s) :
                        /\ \A i \in k..j : s[i] # "/"
                        /\ (j = Len(s) \/ s[j + 1] = "/")
        nth(n) == CHOOSE k \in starts : Cardinality({j \in starts : j < k}) = n - 1
    IN  [n \in 1..Cardinality(starts) |-> SubSeq(s, nth(n), endOf(nth(n)))]

NotParsed == [isNull |-> TRUE, owner |-> <<>>, repo |-> <<>>]
parseRepoUrl(rawUrl) ==
    LET url1 == Before(Before(trim(rawUrl), "#"), "?")
        url2 == WithoutSuffix(url1, <<"/">>)
        url3 == WithoutSuffix(url2, <<".","g","i","t">>)
        url4 == IF WithoutPrefix(url3, <<"h","t","t","p","s",":","/","/">>) # url3
                THEN WithoutPrefix(url3, <<"h","t","t","p","s",":","/","/">>)
                ELSE WithoutPrefix(url3, <<"h","t","t","p",":","/","/">>)
        url5 == WithoutPrefix(url4, <<"w","w","w",".">>)
        url6 == WithoutPrefix(url5, <<"g","i","t","h","u","b",".","c","o","m","/">>)
        parts == SplitParts(url6)
    IN  IF Len(parts) >= 2 THEN [isNull |-> FALSE, owner |-> parts[1], repo |-> parts[2]]
        ELSE NotParsed

\* what the user submits: two repositories in two of the accepted forms, and
\* a text that names no repository
Urls ==
    { <<"f","a","c","e","b","o","o","k","/","r","e","a","c","t">>,
      <<"h","t","t","p","s",":","/","/","g","i","t","h","u","b",".","c","o","m","/","v","e","r","c","e","l","/","n","e","x","t",".","j","s",".","g","i","t">>,
      <<"r","e","a","c","t">> }

\* the body of GET /repos/<owner>/<repo>
RepoData(parsed) ==
    [isNull |-> FALSE, name |-> <<parsed.repo>>, stargazers_count |-> 0,
     default_branch |-> IF parsed.repo = S_next_js THEN S_canary ELSE S_main]
\* the messages of the errors ghFetch throws for the repository request
MetadataFailures ==
    {"Network error: cannot reach GitHub API. Check your internet connection.",
     "Repository not found (404)"}
InvalidUrl == "Invalid GitHub URL format."
\* what getContributorCount resolves to: the last page number of the
\* contributors listing, or 1 when the request fails or lists nothing
ContributorCount(parsed) == IF parsed.repo = S_react THEN 23 ELSE 1
\* estimateCommits of a summary without created_at: max(10, floor(stars * 0.25))
estimateCommits(repoData) == Max(10, (repoData.stargazers_count * 25) \div 100)
\* { ...repoData, contributors_count, commits_count }
Enriched(repoData, count) ==
    [isNull |-> FALSE, name |-> repoData.name, stargazers_count |-> repoData.stargazers_count,
     default_branch |-> repoData.default_branch, contributors_count |-> count,
     commits_count |-> estimateCommits(repoData)]
\* loadDemo's demoMeta
demoMeta ==
    [isNull |-> FALSE, name |-> <<S_lord_of_repo>>, stargazers_count |-> 2847,
     default_branch |-> S_main, contributors_count |-> 23, commits_count |-> 847]
\* generateAINarrative without an API key: the deterministic narrative of the summary
Narrative(meta) == [name |-> meta.name, stars |-> meta.stargazers_count, isAIGenerated |-> FALSE]

NoCall == [TreeCall(<<>>, <<>>, <<>>) EXCEPT !.pc = "not called"]
\* the list fetchRepoTree resolved to, as buildCityLayout gets it
TreeOf(request) == [isNull |-> FALSE, items |-> request.treeCall.returned[1]]
\* the outcomes of a tree or contents request drawn when the whole hook runs
HookResponsesTo(call) ==
    {Threw, Resolved(TRUE, IF call.pc = "contents" THEN RemoteContents ELSE RemoteTree)}

InitHook ==
    /\ tree = NullTree
    /\ enrichedMeta = NullMeta
    /\ calls = 0
    /\ layout = NotCalled
    /\ previous = NotCalled
    /\ probe = NoProbe
    /\ fileProbe = <<>>
    /\ Mounted
    /\ Listening

\* fetchRepo(repoUrl) up to its first await: the state is cleared, the URL is
\* parsed, and the repository request is sent; an invalid URL throws at once
FetchRepo ==
    /\ Len(requests) < MaxRequests
    /\ \E repoUrl \in Urls :
          LET parsed == parseRepoUrl(repoUrl)
          IN  /\ requests' = Append(requests,
                    [kind |-> "fetchRepo", pc |-> IF parsed.isNull THEN "done" ELSE "metadata",
                     parsed |-> parsed, repoData |-> NullMeta, treeCall |-> NoCall,
                     meta |-> NullMeta])
              /\ loading' = ~parsed.isNull
              /\ error' = IF parsed.isNull THEN <<InvalidUrl>> ELSE <<>>
    /\ cityData' = <<>>
    /\ narrative' = <<>>
    /\ repoInfo' = <<>>
    /\ UNCHANGED <<CURRENT_REPO_INFO, cityVars, probeVars, presenceVars>>

\* await ghFetch(repository): it throws (catch, finally), or fetchRepoTree is called
MetadataResponse ==
    \E r \in 1..Len(requests) :
        /\ requests[r].kind = "fetchRepo"
        /\ requests[r].pc = "metadata"
        /\ \/ \E message \in MetadataFailures :
                 /\ requests' = [requests EXCEPT ![r].pc = "done"]
                 /\ error' = <<message>>
                 /\ loading' = FALSE
           \/ LET repoData == RepoData(requests[r].parsed)
              IN  /\ requests' = [requests EXCEPT
                         ![r].pc = "tree",
                         ![r].repoData = repoData,
                         ![r].treeCall = TreeCall(requests[r].parsed.owner, requests[r].parsed.repo,
                                                  OrString(repoData.default_branch, S_main))]
                  /\ UNCHANGED <<loading, error>>
        /\ UNCHANGED <<cityData, narrative, repoInfo, CURRENT_REPO_INFO,
                       cityVars, probeVars, presenceVars>>

\* a request of the fetchRepoTree call gets its response; when the call has
\* returned (and getContributorCount with it) the summary is enriched, the
\* layout is computed and generateAINarrative is awaited
TreeResponse ==
    \E r \in 1..Len(requests) :
        /\ requests[r].kind = "fetchRepo"
        /\ requests[r].pc = "tree"
        /\ \E response \in HookResponsesTo(requests[r].treeCall) :
              LET call == Attempt(requests[r].treeCall, response)
                  meta == Enriched(requests[r].repoData, ContributorCount(requests[r].parsed))
              IN  IF call.pc # "returned"
                  THEN /\ requests' = [requests EXCEPT ![r].treeCall = call]
                       /\ UNCHANGED <<loading, error>>
                  ELSE IF buildCityLayout([isNull |-> FALSE, items |-> call.returned[1]], meta).threw
                  THEN /\ requests' = [requests EXCEPT ![r].treeCall = call, ![r].pc = "done"]
                       /\ error' = <<"TypeError">>
                       /\ loading' = FALSE
                  ELSE /\ requests' = [requests EXCEPT ![r].treeCall = call, ![r].meta = meta,
                                                       ![r].pc = "narrative"]
                       /\ UNCHANGED <<loading, error>>
        /\ UNCHANGED <<cityData, narrative, repoInfo, CURRENT_REPO_INFO,
                       cityVars, probeVars, presenceVars>>

\* the narrative has resolved: the results are published (finally: loading off)
NarrativeDone ==
    \E r \in 1..Len(requests) :
        /\ requests[r].kind = "fetchRepo"
        /\ requests[r].pc = "narrative"
        /\ CURRENT_REPO_INFO' = <<requests[r].meta>>
        /\ repoInfo' = <<requests[r].meta>>
        /\ narrative' = <<Narrative(requests[r].meta)>>
        /\ cityData' = <<buildCityLayout(TreeOf(requests[r]), requests[r].meta)>>
        /\ loading' = FALSE
        /\ requests' = [requests EXCEPT ![r].pc = "done"]
        /\ UNCHANGED <<error, cityVars, probeVars, presenceVars>>

\* loadDemo() up to its await
LoadDemo ==
    /\ Len(requests) < MaxRequests
    /\ requests' = Append(requests,
          [kind |-> "loadDemo", pc |-> "narrative", parsed |-> NotParsed, repoData |-> NullMeta,
           treeCall |-> NoCall, meta |-> demoMeta])
    /\ loading' = TRUE
    /\ error' = <<>>
    /\ UNCHANGED <<cityData, narrative, repoInfo, CURRENT_REPO_INFO,
                   cityVars, probeVars, presenceVars>>

\* loadDemo after its await
DemoDone ==
    \E r \in 1..Len(requests) :
        /\ requests[r].kind = "loadDemo"
        /\ requests[r].pc = "narrative"
        /\ repoInfo' = <<demoMeta>>
        /\ narrative' = <<Narrative(demoMeta)>>
        /\ cityData' = <<buildDemoCity(demoMeta)>>
        /\ loading' = FALSE
        /\ requests' = [requests EXCEPT ![r].pc = "done"]
        /\ UNCHANGED <<error, CURRENT_REPO_INFO, cityVars, probeVars, presenceVars>>

NextHook ==
    FetchRepo \/ MetadataResponse \/ TreeResponse \/ NarrativeDone \/ LoadDemo \/ DemoDone

SpecHook == InitHook /\ [][NextHook]_vars

\* ---------------------------------------------------------------- presence server
\* most clients that connect in one behaviour
MaxSockets == 2
\* most events (connection, mousemove, clickIsland, disconnect) in one behaviour
MaxEvents == 5

\* activeUsers is a list of <<key, value>> in insertion order, as the
\* properties of a JavaScript object are kept
HasKey(obj, key) == \E k \in 1..Len(obj) : obj[k][1] = key
Get(obj, key) == (CHOOSE k \in 1..Len(obj) : obj[k][1] = key)
\* the value of the first property alone
ObjectValues_First(obj) == [k \in 1..Min(1, Len(obj)) |-> obj[k][2]]
\* Object.values(obj)
ObjectValues(obj) == [k \in 1..Len(obj) |-> obj[k][2]]
\* delete obj[key]
Delete(obj, key) == SelectSeq(obj, LAMBDA pair : pair[1] # key)

\* activeUsers[socket.id] = { id: socket.id, position: [0, 10, 0], action: 'idling', islandId: null }
Joined(users, id) ==
    Append(users, <<id, [id |-> id, position |-> <<0, 10, 0>>, action |-> "idling", islandId |-> <<>>]>>)

\* the mousemove handler writing whether or not the entry exists
Moved_Upsert(users, id, pos) ==
    IF HasKey(users, id)
    THEN [users EXCEPT ![Get(users, id)][2].position = pos, ![Get(users, id)][2].action = "moving"]
    ELSE Append(users, <<id, [id |-> id, position |-> pos, action |-> "moving", islandId |-> <<>>]>>)

\* if (activeUsers[socket.id]) { position = pos; action = 'moving' }
Moved(users, id, pos) ==
    IF HasKey(users, id)
    THEN [users EXCEPT ![Get(users, id)][2].position = pos, ![Get(users, id)][2].action = "moving"]
    ELSE users

\* the clickIsland handler storing the island and leaving the action as it was
Clicked_IslandOnly(users, id, islandId) ==
    IF HasKey(users, id)
    THEN [users EXCEPT ![Get(users, id)][2].islandId = <<islandId>>]
    ELSE users

\* if (activeUsers[socket.id]) { action = 'inspecting'; islandId = islandId }
Clicked(users, id, islandId) ==
    IF HasKey(users, id)
    THEN [users EXCEPT ![Get(users, id)][2].action = "inspecting",
                       ![Get(users, id)][2].islandId = <<islandId>>]
    ELSE users

\* what clients send
Positions == {<<1, 2, 3>>, <<4, 5, 6>>}
IslandIds == {S_core_station, S_a1}

\* a client as seen from outside the server: connected or not, the position
\* it sent last, how many events it caused, whether one of them found no entry,
\* the event it sent last while connected and the island it clicked last
NewSocket ==
    [connected |-> TRUE, sent |-> <<>>, events |-> 1, dropped |-> FALSE,
     last |-> "connection", clicked |-> <<>>]
RECURSIVE EventsOf(_)
EventsOf(clients) == IF clients = <<>> THEN 0 ELSE Head(clients).events + EventsOf(Tail(clients))

InitPresence ==
    /\ tree = NullTree
    /\ enrichedMeta = NullMeta
    /\ calls = 0
    /\ layout = NotCalled
    /\ previous = NotCalled
    /\ probe = NoProbe
    /\ fileProbe = <<>>
    /\ Mounted
    /\ Listening

\* io.on('connection'): the socket gets a fresh id (its index here)
Connection ==
    /\ Len(sockets) < MaxSockets
    /\ EventsOf(sockets) < MaxEvents
    /\ sockets' = Append(sockets, NewSocket)
    /\ activeUsers' = Joined(activeUsers, Len(sockets) + 1)
    /\ emitted' = Append(emitted, ObjectValues(activeUsers'))
    /\ UNCHANGED <<cityVars, probeVars, hookVars>>

\* socket.on('mousemove'), also for a packet that arrives after the disconnect
MouseMove ==
    /\ EventsOf(sockets) < MaxEvents
    /\ \E id \in 1..Len(sockets), pos \in Positions :
          /\ activeUsers' = Moved(activeUsers, id, pos)
          /\ emitted' = IF HasKey(activeUsers, id)
                        THEN Append(emitted, ObjectValues(activeUsers'))
                        ELSE emitted
          /\ sockets' = [sockets EXCEPT ![id].events = @ + 1,
                                        ![id].sent = IF sockets[id].connected THEN <<pos>> ELSE @,
                                        ![id].last = IF sockets[id].connected THEN "mousemove" ELSE @,
                                        ![id].dropped = @ \/ ~HasKey(activeUsers, id)]
    /\ UNCHANGED <<cityVars, probeVars, hookVars>>

\* socket.on('clickIsland')
ClickIsland ==
    /\ EventsOf(sockets) < MaxEvents
    /\ \E id \in 1..Len(sockets), islandId \in IslandIds :
          /\ activeUsers' = Clicked(activeUsers, id, islandId)
          /\ emitted' = IF HasKey(activeUsers, id)
                        THEN Append(emitted, ObjectValues(activeUsers'))
                        ELSE emitted
          /\ sockets' = [sockets EXCEPT ![id].events = @ + 1,
                                        ![id].last = IF sockets[id].connected THEN "clickIsland" ELSE @,
                                        ![id].clicked = IF sockets[id].connected THEN <<islandId>> ELSE @,
                                        ![id].dropped = @ \/ ~HasKey(activeUsers, id)]
    /\ UNCHANGED <<cityVars, probeVars, hookVars>>

\* socket.on('disconnect')
Disconnect ==
    /\ EventsOf(sockets) < MaxEvents
    /\ \E id \in 1..Len(sockets) :
          /\ sockets[id].connected
          /\ activeUsers' = Delete(activeUsers, id)
          /\ emitted' = Append(emitted, ObjectValues(activeUsers'))
          /\ sockets' = [sockets EXCEPT ![id].events = @ + 1, ![id].connected = FALSE]
    /\ UNCHANGED <<cityVars, probeVars, hookVars>>

NextPresence == Connection \/ MouseMove \/ ClickIsland \/ Disconnect

SpecPresence == InitPresence /\ [][NextPresence]_vars

\* ---------------------------------------------------------------- properties
\* a call has returned a layout
Returned == calls >= 1 /\ ~layout.threw
\* ... computed from a non-empty list
Computed == Returned /\ ~tree.isNull /\ Len(tree.items) > 0
\* ... for a missing or empty list
FellBack == Returned /\ (tree.isNull \/ Len(tree.items) = 0)

IsDirectoryNode(n) == n.type = "directory"
IsFileNode(n) == n.type \in {"sun", "star"}
DirectoryNodes == SelectSeq(layout.islands, IsDirectoryNode)
FileNodes == SelectSeq(layout.islands, IsFileNode)
NoSlash(path) == \A k \in 1..Len(path) : path[k] # "/"
IsTopLevelTree(e) == e.type = "tree" /\ NoSlash(e.path)
\* the size a File entry is sorted by
SortSize(e) == IF e.size = <<>> THEN 0 ELSE e.size[1]
Blobs == {k \in 1..Len(tree.items) : tree.items[k].type = "blob"}
Zero == [op |-> "const", v |-> [t |-> "number", n |-> 0, d |-> 1], angle |-> NoAngle, radius |-> NoRadius]
\* the directory nodes placed where an edge end is
NodesAt(position) == {k \in 1..Len(DirectoryNodes) : DirectoryNodes[k].position = position}

\* two names that differ at most in the case of their letters
SameLetters(a, b) ==
    /\ Len(a) = Len(b)
    /\ \A k \in 1..Len(a) :
          \/ a[k] = b[k]
          \/ \E i \in 1..26 : {a[k], b[k]} = {Lower[i], Upper[i]}
\* the altitudes the table is said to hold
TableValue(key) ==
    CASE key = S_src -> 12
      [] key = S_core -> 11
      [] key \in {S_lib, S_main} -> 10
      [] key \in {S_api, S_app} -> 9
      [] key = S_components -> 7
      [] key \in {S_utils, S_services, S_hooks, S_store, S_context} -> 6
      [] key \in {S_assets, S_styles, S_public, S_static} -> 4
      [] key \in {S_test, S_tests, S___tests__, S_examples} -> 2
      [] key = S_docs -> 1
      [] key \in {S_deprecated, S_legacy} -> 0
\* altitude > k as the code evaluates it: false for a value that is no number
Above(altitude, k) == altitude.t = "number" /\ altitude.n > k * altitude.d

\* C1: two calls of buildCityLayout on the same entries (paths, types, sizes,
\* shas, order) and the same repository name return equal layouts, whatever
\* else changed between the calls and whatever the first call left behind.
Determinism == calls >= 2 => layout = previous

\* C1 witness: a second call has returned a computed city with islands and
\* connections, after the repository was fetched again.
DeterminismWitness ==
    /\ calls = 2
    /\ Computed
    /\ enrichedMeta.stargazers_count # 0
    /\ Len(DirectoryNodes) >= 2
    /\ Len(FileNodes) >= 2

\* C2: every layout returned, computed or fallback, has exactly one node of
\* type 'core', at (0,0,0), of scale 2.5 and altitude 0.
CoreNodeInvariant ==
    Returned =>
        LET cores == {k \in 1..Len(layout.islands) : layout.islands[k].type = "core"}
        IN  /\ Cardinality(cores) = 1
            /\ \A k \in cores :
                  /\ layout.islands[k].position = <<Zero, Zero, Zero>>
                  /\ layout.islands[k].scale = [t |-> "number", n |-> 5, d |-> 2]
                  /\ layout.islands[k].altitude = [t |-> "number", n |-> 0, d |-> 1]

\* C2 witness: a computed layout that holds a directory named 'src' and a file
\* beside the core.
CoreNodeWitness ==
    /\ Computed
    /\ \E k \in 1..Len(DirectoryNodes) : DirectoryNodes[k].originalPath = S_src
    /\ Len(FileNodes) >= 1

\* C3: for an empty or missing list buildCityLayout does not throw and returns
\* what buildDemoCity returns for the same summary (13 nodes, 10 edges); no
\* call returns a layout without nodes.
FallbackTrigger ==
    /\ (calls >= 1 /\ (tree.isNull \/ tree.items = <<>>)) =>
          /\ ~layout.threw
          /\ layout = buildDemoCity(enrichedMeta)
          /\ Len(layout.islands) = 13
          /\ Len(layout.connections) = 10
    /\ Returned => Len(layout.islands) >= 1

\* C3 witness: the list is present but empty and there is no summary at all.
FallbackWitness ==
    /\ calls >= 1
    /\ ~tree.isNull
    /\ tree.items = <<>>
    /\ enrichedMeta.isNull
    /\ ~layout.threw

\* C4: getAltitude returns a finite non-negative number for every name and
\* every non-negative depth, names of built-in properties included.
AltitudeTotal ==
    probe.done => probe.result.t = "number" /\ probe.result.n >= 0 /\ probe.result.d > 0

\* C5: for a name outside the table getAltitude(name, d) is max(0, 8 - 2d):
\* never below 0, 0 from depth 4 on, and not greater at a greater depth.
AltitudeByDepth ==
    (probe.done /\ \A key \in WellKnown : ~SameLetters(probe.name, key)) =>
        /\ probe.result = [t |-> "number", n |-> Max(0, 8 - 2 * probe.depth), d |-> 1]
        /\ (probe.depth >= 4 => probe.result.n = 0)
        /\ (probe.again /\ probe.earlierDepth < probe.depth) =>
              AtLeast(probe.earlierResult, probe.result)

\* C6: for a name that is a table key in any letter case getAltitude returns
\* the table's value, at every depth.
AltitudeByName ==
    probe.done =>
        \A key \in WellKnown :
            SameLetters(probe.name, key) =>
                /\ probe.result = [t |-> "number", n |-> TableValue(key), d |-> 1]
                /\ probe.again => probe.earlierResult = probe.result

\* C6 witness: 'SRC' asked at depth 3 and then at another depth.
AltitudeByNameWitness ==
    /\ probe.done
    /\ probe.again
    /\ probe.name = <<"S","R","C">>
    /\ probe.earlierDepth = 3
    /\ probe.depth # 3
    /\ probe.result.n = 12

\* C7: the file nodes of a computed layout are min(8, number of File entries)
\* distinct File entries, none smaller than a File entry left out, in
\* descending order of size; no Directory entry becomes a file node.
TopFileSelection ==
    Computed =>
        LET files == FileNodes
            entryOf(k) == CHOOSE j \in 1..Len(tree.items) :
                              tree.items[j].path = files[k].originalPath
            chosen == {entryOf(k) : k \in 1..Len(files)}
        IN  /\ Len(files) = Min(8, Cardinality(Blobs))
            /\ \A k \in 1..Len(files) :
                  \E j \in Blobs : tree.items[j].path = files[k].originalPath
            /\ Cardinality(chosen) = Len(files)
            /\ chosen \subseteq Blobs
            /\ \A j \in chosen, i \in Blobs \ chosen :
                  SortSize(tree.items[j]) >= SortSize(tree.items[i])
            /\ \A k \in 1..Len(files), m \in 1..Len(files) :
                  k < m => SortSize(tree.items[entryOf(k)]) >= SortSize(tree.items[entryOf(m)])
            /\ \A j \in 1..Len(tree.items) :
                  tree.items[j].type = "tree" =>
                      \A k \in 1..Len(files) : files[k].originalPath # tree.items[j].path

\* C7 witness: more than 8 File entries, the largest of them last in the list,
\* and directories in the list as well.
TopFileWitness ==
    /\ Computed
    /\ Cardinality(Blobs) > 8
    /\ Len(FileNodes) = 8
    /\ tree.items[Len(tree.items)].type = "blob"
    /\ FileNodes[1].originalPath = tree.items[Len(tree.items)].path
    /\ Len(DirectoryNodes) >= 1

\* C8: the directory nodes of a computed layout are the first 16 (or fewer)
\* Directory entries without '/' in their path, in input order; nested
\* directories and top-level ones after the 16th get no node.
DirectorySelection ==
    Computed =>
        LET expected == SelectSeq(tree.items, IsTopLevelTree)
            dirs == DirectoryNodes
        IN  /\ Len(dirs) = Min(16, Len(expected))
            /\ Len(dirs) <= 16
            /\ \A k \in 1..Len(dirs) : dirs[k].originalPath = expected[k].path

\* C8 witness: 17 top-level directories and a nested one; the 17th has no node.
DirectoryWitness ==
    /\ Computed
    /\ Len(SelectSeq(tree.items, IsTopLevelTree)) = 17
    /\ Len(DirectoryNodes) = 16
    /\ \E j \in 1..Len(tree.items) : tree.items[j].type = "tree" /\ ~NoSlash(tree.items[j].path)

\* the edges with the given indices start at the core and end at the place
\* of exactly one directory node
FromCoreToOneDirectory(indices) ==
    \A k \in indices :
        /\ layout.connections[k].from = <<Zero, Zero, Zero>>
        /\ Cardinality(NodesAt(layout.connections[k].to)) = 1

\* C9 as stated: in every layout returned each edge goes from (0,0,0) to the
\* position of exactly one Directory node, and there are as many edges as
\* Directory nodes.
EdgeCorrespondence ==
    Returned =>
        /\ FromCoreToOneDirectory(1..Len(layout.connections))
        /\ Len(layout.connections) = Len(DirectoryNodes)

\* C9 amended: that holds of every computed layout; the fallback layout has 10
\* edges for 9 Directory nodes, the first 8 from (0,0,0) to one Directory node
\* each, the last 2 from one Directory node to another.
EdgeCorrespondenceComputed ==
    /\ Computed =>
          /\ FromCoreToOneDirectory(1..Len(layout.connections))
          /\ Len(layout.connections) = Len(DirectoryNodes)
    /\ FellBack =>
          /\ Len(layout.connections) = 10
          /\ Len(DirectoryNodes) = 9
          /\ FromCoreToOneDirectory(1..8)
          /\ \A k \in 9..10 :
                /\ Cardinality(NodesAt(layout.connections[k].from)) = 1
                /\ Cardinality(NodesAt(layout.connections[k].to)) = 1
                /\ layout.connections[k].from # layout.connections[k].to

\* C9 witness: a computed layout with 16 directory nodes and their 16 edges.
EdgeWitness ==
    /\ Computed
    /\ Len(layout.connections) = 16
    /\ Len(FileNodes) >= 1

\* C10: a computed layout has one edge per directory node, in the same order,
\* from the core to that node's position, primary exactly when the node's
\* altitude is above 7, of thickness 2 when it is above 8 and else 1; no edge
\* starts or ends at a file node.
ConnectionBuilder ==
    Computed =>
        LET dirs == DirectoryNodes
            edges == layout.connections
        IN  /\ Len(edges) = Len(dirs)
            /\ \A k \in 1..Len(edges) :
                  /\ edges[k].from = <<Zero, Zero, Zero>>
                  /\ edges[k].to = dirs[k].position
                  /\ edges[k].isPrimary = Above(dirs[k].altitude, 7)
                  /\ edges[k].thickness =
                        [t |-> "number", n |-> IF Above(dirs[k].altitude, 8) THEN 2 ELSE 1, d |-> 1]
                  /\ \A f \in 1..Len(FileNodes) :
                        /\ FileNodes[f].position # edges[k].to
                        /\ FileNodes[f].position # edges[k].from

\* C10 witness: directories of altitude 7 and of altitude 12, and a file.
ConnectionWitness ==
    /\ Computed
    /\ \E k \in 1..Len(DirectoryNodes) : DirectoryNodes[k].altitude.n = 7
    /\ \E k \in 1..Len(DirectoryNodes) : DirectoryNodes[k].altitude.n = 12
    /\ \E k \in 1..Len(layout.connections) : ~layout.connections[k].isPrimary
    /\ Len(FileNodes) >= 1

\* C11: within one layout returned no two nodes have the same id, for every
\* list whose paths are distinct, lists where several entries carry the same
\* sha included.
UniqueIds ==
    (Returned /\ \A j, k \in 1..Len(tree.items) :
                    tree.items[j].path = tree.items[k].path => j = k) =>
        \A j, k \in 1..Len(layout.islands) :
            layout.islands[j].id = layout.islands[k].id => j = k

\* the scale the steps give, in tenths
Tenths(size) ==
    CASE size < 10000 -> 6
      [] size >= 10000 /\ size < 50000 -> 9
      [] size >= 50000 /\ size < 200000 -> 12
      [] size >= 200000 /\ size < 1000000 -> 16
      [] size >= 1000000 -> 20

\* C12: a file node's scale is 0.6 / 0.9 / 1.2 / 1.6 / 2.0 by the steps of its
\* size at 10000, 50000, 200000 and 1000000; it is positive, not smaller for
\* a size not smaller, and greater for 5,000,000 bytes than for 5,000.
FileScale ==
    /\ \A k \in 1..Len(fileProbe) :
          LET scale == fileProbe[k].island.scale
          IN  /\ scale.t = "number"
              /\ scale.d > 0
              /\ scale.n > 0
              /\ scale.n * 10 = Tenths(SortSize(fileProbe[k].file)) * scale.d
    /\ \A j, k \in 1..Len(fileProbe) :
          /\ SortSize(fileProbe[j].file) <= SortSize(fileProbe[k].file) =>
                AtLeast(fileProbe[k].island.scale, fileProbe[j].island.scale)
          /\ (SortSize(fileProbe[j].file) = 5000 /\ SortSize(fileProbe[k].file) = 5000000) =>
                Greater(fileProbe[k].island.scale, fileProbe[j].island.scale)

\* C12 witness: a file of 5,000,000 bytes and one of 5,000 bytes have got
\* their nodes.
FileScaleWitness ==
    /\ Len(fileProbe) = 2
    /\ fileProbe[1].file.size = <<5000000>>
    /\ fileProbe[2].file.size = <<5000>>
    /\ fileProbe[1].island.scale # fileProbe[2].island.scale

\* C13: a file node is a 'sun' of altitude 6 exactly when its size is above
\* 50000, and a 'star' of altitude 2 otherwise, at exactly 50000 too.
SunStar ==
    \A k \in 1..Len(fileProbe) :
        LET node == fileProbe[k].island
        IN  IF SortSize(fileProbe[k].file) > 50000
            THEN node.type = "sun" /\ node.altitude = [t |-> "number", n |-> 6, d |-> 1]
            ELSE node.type = "star" /\ node.altitude = [t |-> "number", n |-> 2, d |-> 1]

\* C13 witness: a file of 50001 bytes is a sun and one of exactly 50000 bytes
\* is a star.
SunStarWitness ==
    /\ Len(fileProbe) = 2
    /\ fileProbe[1].file.size = <<50001>>
    /\ fileProbe[1].island.type = "sun"
    /\ fileProbe[2].file.size = <<50000>>
    /\ fileProbe[2].island.type = "star"

\* the nodes of the given type in the layout held
OfType(type) == {k \in 1..Len(layout.islands) : layout.islands[k].type = type}

\* C14: the fallback layout is the same 13 nodes (1 core, 9 directories, 1
\* sun, 2 stars) and the same 10 edges for every summary; only the core's name
\* follows the summary: its name, or 'DemoRepo' when the summary or its name is
\* absent or empty.
DemoFixed ==
    FellBack =>
        /\ Len(layout.islands) = 13
        /\ Cardinality(OfType("core")) = 1
        /\ Cardinality(OfType("directory")) = 9
        /\ Cardinality(OfType("sun")) = 1
        /\ Cardinality(OfType("star")) = 2
        /\ Len(layout.connections) = 10
        /\ layout.islands[1].type = "core"
        /\ layout.islands[1].name =
              IF enrichedMeta.isNull \/ enrichedMeta.name \in {<<>>, << <<>> >>}
              THEN <<S_DemoRepo>>
              ELSE enrichedMeta.name
        /\ \A other \in Metas \cup {[m EXCEPT !.stargazers_count = 2847] : m \in Metas \ {NullMeta}} :
              LET city == buildDemoCity(other)
              IN  /\ city.connections = layout.connections
                  /\ Len(city.islands) = 13
                  /\ \A k \in 2..13 : city.islands[k] = layout.islands[k]
                  /\ [city.islands[1] EXCEPT !.name = <<>>] = [layout.islands[1] EXCEPT !.name = <<>>]
        /\ calls >= 2 => [previous EXCEPT !.islands[1].name = <<>>] = [layout EXCEPT !.islands[1].name = <<>>]

\* C14 witness: the fallback layout returned twice for a summary named 'demo',
\* whose other fields changed in between.
DemoFixedWitness ==
    /\ FellBack
    /\ calls = 2
    /\ enrichedMeta.name = <<S_demo>>
    /\ enrichedMeta.stargazers_count = 2847
    /\ layout.islands[1].name = <<S_demo>>

\* the k-th request of the fetchRepoTree call did not give a tree
Failed(k) ==
    requests[1].attempts[k].response.threw \/ ~requests[1].attempts[k].response.has

\* C16: fetchRepoTree asks for the tree of the default branch first, for the
\* tree of HEAD only after that request threw or gave no tree, for the contents
\* listing only after the second failed too; it returns what the first
\* successful request gave (the listing as tree entries), and the empty list
\* when all three failed; it does not throw.
TreeFallbackChain ==
    LET call == requests[1]
        made == call.attempts
        last == made[Len(made)]
    IN  /\ Len(made) <= 3
        /\ \A k \in 1..Len(made) :
              /\ made[k].request.owner = call.owner
              /\ made[k].request.repo = call.repo
              /\ k = 1 => made[k].request.endpoint = "git/trees" /\ made[k].request.ref = call.defaultBranch
              /\ k = 2 => made[k].request.endpoint = "git/trees" /\ made[k].request.ref = S_HEAD
              /\ k = 3 => made[k].request.endpoint = "contents"
              /\ k > 1 => Failed(k - 1)
        /\ call.pc # "returned" =>
              /\ Len(made) < 3
              /\ call.returned = <<>>
              /\ Len(made) >= 1 => Failed(Len(made))
        /\ call.pc = "returned" =>
              /\ Len(made) >= 1
              /\ Len(call.returned) = 1
              /\ Failed(Len(made)) => Len(made) = 3 /\ call.returned[1] = <<>>
              /\ (~Failed(Len(made)) /\ Len(made) < 3) => call.returned[1] = last.response.items
              /\ (~Failed(Len(made)) /\ Len(made) = 3) =>
                    /\ Len(call.returned[1]) = Len(last.response.items)
                    /\ \A k \in 1..Len(call.returned[1]) :
                          /\ call.returned[1][k].path = last.response.items[k].path
                          /\ call.returned[1][k].sha = last.response.items[k].sha
                          /\ call.returned[1][k].type =
                                IF last.response.items[k].type = "dir" THEN "tree" ELSE "blob"

\* C16 witness: the default-branch request threw, the HEAD request resolved
\* without a tree, and the contents listing was returned as tree entries.
TreeFallbackWitness ==
    /\ Len(requests) = 1
    /\ requests[1].pc = "returned"
    /\ Len(requests[1].attempts) = 3
    /\ requests[1].attempts[1].response.threw
    /\ ~requests[1].attempts[2].response.threw
    /\ ~Failed(3)
    /\ Len(requests[1].returned[1]) = 2
    /\ requests[1].returned[1][1].type = "tree"

\* the fallback layout, whatever name its core got
IsDemoCity(city) ==
    /\ city # <<>>
    /\ [city[1] EXCEPT !.islands[1].name = <<>>]
          = [buildDemoCity(NullMeta) EXCEPT !.islands[1].name = <<>>]
\* every request the fetchRepoTree call made has failed, and there were three
AllTreeAttemptsFailed(call) ==
    /\ call.pc = "returned"
    /\ Len(call.attempts) = 3
    /\ \A k \in 1..3 : call.attempts[k].response.threw \/ ~call.attempts[k].response.has

\* C15 as stated: a fetchRepo call whose repository request fails, or whose
\* tree requests all fail, finishes with the fallback layout as city data.
DegradeToFallback ==
    [][\A r \in 1..Len(requests) :
          (/\ requests[r].kind = "fetchRepo"
           /\ requests[r].pc # "done"
           /\ requests'[r].pc = "done"
           /\ (requests[r].pc = "metadata" \/ AllTreeAttemptsFailed(requests'[r].treeCall)))
          => IsDemoCity(cityData')]_vars

\* C15 amended: a fetchRepo call whose tree requests all fail finishes by
\* publishing the fallback layout named after the repository, without setting
\* an error; one whose repository request fails finishes by setting the
\* error's message, having called neither fetchRepoTree nor buildCityLayout,
\* and leaves the city data as its start left it.
DegradeOnTreeFailure ==
    [][\A r \in 1..Len(requests) :
          (/\ requests[r].kind = "fetchRepo"
           /\ requests[r].pc # "done"
           /\ requests'[r].pc = "done")
          => /\ AllTreeAttemptsFailed(requests'[r].treeCall) =>
                   /\ cityData' = <<buildDemoCity(Enriched(requests[r].repoData,
                                                           ContributorCount(requests[r].parsed)))>>
                   /\ cityData'[1].islands[1].name = <<requests[r].parsed.repo>>
                   /\ error' = error
                   /\ ~loading'
             /\ requests[r].pc = "metadata" =>
                   /\ error' \in {<<message>> : message \in MetadataFailures}
                   /\ cityData' = cityData
                   /\ requests'[r].treeCall = NoCall
                   /\ requests'[r].meta = NullMeta
                   /\ ~loading']_vars

\* C15 witness: the three tree requests of a fetchRepo call failed and the
\* call has finished: the hook holds the fallback layout and no error.
DegradeWitness ==
    \E r \in 1..Len(requests) :
        /\ requests[r].kind = "fetchRepo"
        /\ requests[r].pc = "done"
        /\ AllTreeAttemptsFailed(requests[r].treeCall)
        /\ IsDemoCity(cityData)
        /\ cityData[1].islands[1].name = <<requests[r].parsed.repo>>
        /\ error = <<>>
        /\ ~loading

\* C19: once a fetchRepo call has started, and until it has published its own
\* results, the hook holds no city data, narrative or repository info, so
\* none of an earlier fetchRepo call; after the later call failed it holds none
\* either.
RecomputeFromScratch ==
    (/\ Len(requests) >= 1
     /\ \A r \in 1..Len(requests) : requests[r].kind = "fetchRepo"
     /\ ~(requests[Len(requests)].pc = "done" /\ requests[Len(requests)].meta # NullMeta))
    => /\ cityData = <<>>
       /\ narrative = <<>>
       /\ repoInfo = <<>>

\* C17: activeUsers holds exactly one entry for every connected client and
\* none for a disconnected one; an entry holds the position its client sent
\* last ([0, 10, 0] before the first); an event of a client without entry
\* creates none.
PresenceState ==
    /\ \A id \in 1..Len(sockets) :
          Cardinality({k \in 1..Len(activeUsers) : activeUsers[k][1] = id})
              = IF sockets[id].connected THEN 1 ELSE 0
    /\ \A k \in 1..Len(activeUsers) :
          /\ activeUsers[k][1] \in 1..Len(sockets)
          /\ activeUsers[k][2].id = activeUsers[k][1]
          /\ activeUsers[k][2].position =
                IF sockets[activeUsers[k][1]].sent = <<>> THEN <<0, 10, 0>>
                ELSE sockets[activeUsers[k][1]].sent[1]

\* C17 witness: one client is connected and has sent positions, another has
\* disconnected and an event of it arrived afterwards.
PresenceStateWitness ==
    /\ Len(sockets) = 2
    /\ \E id \in 1..2 :
          /\ sockets[id].connected
          /\ sockets[id].sent = << <<4, 5, 6>> >>
          /\ ~sockets[3 - id].connected
          /\ sockets[3 - id].dropped
    /\ Len(activeUsers) = 1
    /\ activeUsers[1][2].position = <<4, 5, 6>>

\* C18: every connection, every mousemove or clickIsland of a client that has
\* an entry, and every disconnect appends exactly one usersUpdated broadcast
\* whose payload is the list of all entries as they are after the change; an
\* event of a client without entry broadcasts nothing.
PresenceBroadcast ==
    [][\A id \in 1..Len(sockets') :
          LET isNew == id > Len(sockets)
              event == isNew \/ sockets'[id].events # sockets[id].events
              handled == isNew \/ HasKey(activeUsers, id)
          IN  event =>
                IF handled
                THEN /\ Len(emitted') = Len(emitted) + 1
                     /\ SubSeq(emitted', 1, Len(emitted)) = emitted
                     /\ emitted'[Len(emitted')] = [k \in 1..Len(activeUsers') |-> activeUsers'[k][2]]
                     /\ Len(emitted'[Len(emitted')])
                           = Cardinality({c \in 1..Len(sockets') : sockets'[c].connected})
                ELSE /\ emitted' = emitted
                     /\ activeUsers' = activeUsers]_vars

\* C18 witness: a connection, a mousemove and a disconnect have been
\* broadcast, the last with the empty list.
PresenceBroadcastWitness ==
    /\ Len(emitted) = 3
    /\ Len(emitted[1]) = 1
    /\ emitted[1][1].action = "idling"
    /\ emitted[2][1].action = "moving"
    /\ emitted[2][1].position = <<1, 2, 3>>
    /\ emitted[3] = <<>>
    /\ Len(sockets) = 1

\* C20: the directory node at index i of n has the angle i/n of a turn plus a
\* jitter of (sum of the code units of its name) mod 30 degrees, a whole number
\* in 0..29; its y is its altitude minus 5 (NaN where the altitude is no
\* number), and its x and z are cos and sin of that angle times its
\* orbitRadius.
DirectoryPlacement ==
    Computed =>
        \A k \in 1..Len(DirectoryNodes) :
            LET node == DirectoryNodes[k]
                jitter == SumCodes(node.name[1]) % 30
                y == node.position[2]
            IN  /\ jitter \in 0..29
                /\ node.angle.turn.t = "number"
                /\ node.angle.turn.n * Len(DirectoryNodes) = (k - 1) * node.angle.turn.d
                /\ node.angle.deg = [t |-> "number", n |-> jitter, d |-> 1]
                /\ node.angle.rad = [t |-> "number", n |-> 0, d |-> 1]
                /\ y.op = "const"
                /\ IF node.altitude.t = "number"
                   THEN /\ y.v.t = "number"
                        /\ y.v.n * node.altitude.d = (node.altitude.n - 5 * node.altitude.d) * y.v.d
                   ELSE y.v.t = "NaN"
                /\ node.position[1].op = "cos"
                /\ node.position[1].angle = node.angle
                /\ node.position[1].radius = node.orbitRadius
                /\ node.position[3].op = "sin"
                /\ node.position[3].angle = node.angle
                /\ node.position[3].radius = node.orbitRadius

\* C20 witness: 'src' (code units 115 + 114 + 99 = 328, jitter 28) is the
\* second of at least three directory nodes, at altitude 12 and y 7.
DirectoryPlacementWitness ==
    /\ Computed
    /\ Len(DirectoryNodes) >= 3
    /\ DirectoryNodes[2].name = <<S_src>>
    /\ DirectoryNodes[2].angle.deg.n = 28
    /\ DirectoryNodes[2].angle.turn.n > 0
    /\ DirectoryNodes[2].position[2].v.n = 7

\* C21: the file node at index i of m has the angle i/m of a turn plus an
\* eighth of a turn (45 degrees), x and z at the radius 6 + 2 * (i mod 3),
\* which is 6, 8 or 10, and y at its altitude minus 3: -1 for a star, 3 for a
\* sun.
FilePlacement ==
    Computed =>
        \A k \in 1..Len(FileNodes) :
            LET node == FileNodes[k]
                x == node.position[1]
                y == node.position[2]
                z == node.position[3]
            IN  /\ x.op = "cos"
                /\ z.op = "sin"
                /\ x.angle = z.angle
                /\ x.radius = z.radius
                /\ x.angle.turn.t = "number"
                /\ x.angle.turn.n * Len(FileNodes) = (k - 1) * x.angle.turn.d
                /\ x.angle.deg = [t |-> "number", n |-> 45, d |-> 1]
                /\ x.angle.rad = [t |-> "number", n |-> 0, d |-> 1]
                /\ x.radius.base = [t |-> "number", n |-> 6 + 2 * ((k - 1) % 3), d |-> 1]
                /\ x.radius.base.n \in {6, 8, 10}
                /\ x.radius.amp = [t |-> "number", n |-> 0, d |-> 1]
                /\ y.op = "const"
                /\ y.v.t = "number"
                /\ y.v.d = 1
                /\ y.v.n = node.altitude.n - 3
                /\ node.type = "star" => y.v.n = -1
                /\ node.type = "sun" => y.v.n = 3

\* C21 witness: eight file nodes, suns and stars among them; the fourth is
\* back at radius 6 and the eighth at radius 8.
FilePlacementWitness ==
    /\ Computed
    /\ Len(FileNodes) = 8
    /\ FileNodes[4].position[1].radius.base.n = 6
    /\ FileNodes[8].position[1].radius.base.n = 8
    /\ \E k \in 1..8 : FileNodes[k].type = "sun" /\ FileNodes[k].position[2].v.n = 3
    /\ \E k \in 1..8 : FileNodes[k].type = "star" /\ FileNodes[k].position[2].v.n = -1

\* C22: a layout computed from a non-empty list has 1 + min(16, top-level
\* Directory entries) + min(8, File entries) nodes: the core, then the
\* directory nodes, then the file nodes, and one edge per directory node.
NodeCount ==
    Computed =>
        LET dirs == Min(16, Len(SelectSeq(tree.items, IsTopLevelTree)))
            files == Min(8, Cardinality(Blobs))
        IN  /\ Len(layout.islands) = 1 + dirs + files
            /\ layout.islands[1].type = "core"
            /\ \A k \in 2..(1 + dirs) : layout.islands[k].type = "directory"
            /\ \A k \in (2 + dirs)..(1 + dirs + files) : layout.islands[k].type \in {"sun", "star"}
            /\ Len(layout.connections) = dirs

\* C22 witness: two top-level directories and one file of 80000 bytes gave a
\* core, two directory nodes, one sun and two edges.
NodeCountWitness ==
    /\ Computed
    /\ Len(tree.items) = 3
    /\ Len(SelectSeq(tree.items, IsTopLevelTree)) = 2
    /\ \E j \in Blobs : tree.items[j].size = <<80000>>
    /\ Len(layout.islands) = 4
    /\ layout.islands[4].type = "sun"
    /\ Len(layout.connections) = 2

\* C23: every directory node of a computed layout has depth 0, an altitude
\* that is a value of the well-known table or exactly 8, a y between -5 and 7,
\* and an edge that is primary exactly when its name is outside the table or
\* is one of src, core, lib, main, api, app.
DirectoryDepthZero ==
    Computed =>
        \A k \in 1..Len(DirectoryNodes) :
            LET node == DirectoryNodes[k]
                key == toLowerCase(node.name[1])
                y == node.position[2].v
            IN  /\ node.depth = 0
                /\ node.altitude.t = "number"
                /\ node.altitude.d = 1
                /\ node.altitude.n \in {e[2] : e \in ALTITUDE_MAP} \cup {8}
                /\ y.t = "number"
                /\ y.d = 1
                /\ y.n \in -5..7
                /\ layout.connections[k].isPrimary
                     <=> (key \notin WellKnown \/ key \in {S_src, S_core, S_lib, S_main, S_api, S_app})

\* C24: in every computed layout the fileSize fields of the file nodes, read
\* in output order, never increase, also when a File entry has a missing or
\* zero size.
FileSizeOrder ==
    Computed => \A k \in 1..(Len(FileNodes) - 1) : FileNodes[k].fileSize >= FileNodes[k + 1].fileSize

\* C25: a call of buildCityLayout leaves the list it is given, each entry of
\* it and the repository summary as they were: the sort by size reorders a
\* filtered copy.
InputUnchanged == [][calls' = calls + 1 => (tree' = tree /\ enrichedMeta' = enrichedMeta)]_vars

\* C25 witness: a layout was computed from a list whose files were not in
\* order of size: the file nodes come in another order than the files of the
\* list, which still has its directories and its order.
InputUnchangedWitness ==
    /\ Computed
    /\ Len(FileNodes) >= 2
    /\ [k \in 1..Len(FileNodes) |-> FileNodes[k].originalPath]
         # [k \in 1..Len(FileNodes) |-> SelectSeq(tree.items, IsBlob)[k].path]
    /\ \E k \in 1..Len(tree.items) : IsTree(tree.items[k])
    /\ sortBySizeDesc(tree.items) # tree.items

\* a call that has started and not yet finished
InFlight == {r \in 1..Len(requests) : requests[r].pc # "done"}
\* a finished call that published its results
Succeeded(request) == request.pc = "done" /\ ~request.meta.isNull
\* the layout a call publishes
CityOf(request) ==
    IF request.kind = "loadDemo" THEN buildDemoCity(demoMeta)
    ELSE buildCityLayout(TreeOf(request), request.meta)

\* C26: once every call has completed, the city data, the narrative and the
\* repository info held by the hook are those of the call made last (nothing,
\* when that call failed), in whatever order the responses arrived.
LatestRequestWins ==
    (requests # <<>> /\ InFlight = {}) =>
        LET last == requests[Len(requests)]
        IN  IF Succeeded(last)
            THEN /\ repoInfo = <<last.meta>>
                 /\ narrative = <<Narrative(last.meta)>>
                 /\ cityData = <<CityOf(last)>>
            ELSE /\ repoInfo = <<>>
                 /\ narrative = <<>>
                 /\ cityData = <<>>

\* C27: loading is true exactly while at least one fetchRepo or loadDemo call
\* has started and not yet finished.
LoadingTracksInFlight == loading <=> InFlight # {}

\* C28: the hook never holds an error together with city data, and when no
\* call is in flight and at least one has completed it holds exactly one of them.
ErrorXorCity ==
    /\ ~(error # <<>> /\ cityData # <<>>)
    /\ (requests # <<>> /\ InFlight = {}) => (error # <<>> \/ cityData # <<>>)

\* C29: whenever the hook holds city data, window.CURRENT_REPO_INFO is the
\* hook's repoInfo, also after loadDemo.
GlobalInfoMatches == cityData # <<>> => CURRENT_REPO_INFO = repoInfo

====
